---- MODULE Spec2Model ----
(***************************************************************************)
(* Model of src/bunny.py: the Bunny engine (time-driven decay, feed, play, *)
(* clean, reset, status with the perfect / easterBunny edge detector) and  *)
(* the five HTTP endpoints that call it on the shared instance `bunny`.    *)
(*                                                                         *)
(* Numbers.  The four stats are Python floats; here they are integers in   *)
(* hundredths of a point (Pts): 40.0 is 4000, and the thresholds           *)
(* 0.1 / 99.9 are 10 / 9990.  The clock is in whole seconds, so a decay of *)
(* rate * (elapsed_sec / 10) is an exact number of hundredths.  Binary     *)
(* floating point rounding error is not modelled.                          *)
(*                                                                         *)
(* Clock.  Every _decay() and __init__() reads the system clock itself, so *)
(* a handler that runs two of them (feed, play, clean, reset) reads it     *)
(* twice; the second read may be later than the first (Skews).             *)
(***************************************************************************)
EXTENDS Integers, FiniteSets, Sequences, TLC

\* ------------------------------------------------------------------ bounds
\* The clock stops at MaxTime; at most MaxOps engine operations run after Init.
MaxTime == 11
MaxOps == 3

\* Seconds the clock may advance between two requests.
Delays == {5, 6}
\* Seconds the clock may advance between the two clock reads of one handler.
Skews == {0, 1}
\* pellet_count values a request may carry.
PelletCounts == {-2, 0, 1, 6, 100}

\* --------------------------------------------------------------- constants
\* n points, in hundredths
Pts(n) == n * 100
decay_wait == 10
\* decay rates per 10 seconds (1.2, 0.4, 0.3, 0.3 points), in hundredths
hunger_rate == 120
happy_decay == 40
clean_decay == 30
energy_recover == 30

Min2(a, b) == IF a <= b THEN a ELSE b
Max2(a, b) == IF a >= b THEN a ELSE b

\* ------------------------------------------------------------------- state
VARIABLES
    bunny,    \* the module-level Bunny instance: its fields
    now,      \* the wall clock (seconds)
    ret,      \* the body returned by the last request
    op,       \* the last request: endpoint, kind, pellet_count
    opTime,   \* the clock when the last request was received
    pre,      \* the fields of bunny when the last request was received
    nops,     \* engine operations run since the initial state
    entries,  \* observer: new entries into perfect seen in snapshots since reset
    obsPerfect, \* observer: the last returned snapshot was perfect
    threads   \* handlers running in the worker threads, statement by statement

vars == <<bunny, now, ret, op, opTime, pre, nops, entries, obsPerfect,
          threads>>

\* ------------------------------------------------------------------ engine
\* clamp without its lower bound
clampNoFloor(v) == Min2(Pts(100), v)

clamp(v) == Max2(0, Min2(Pts(100), v))

BunnyInit(t) ==
    [hunger |-> Pts(40), happiness |-> Pts(70),
     cleanliness |-> Pts(80), energy |-> Pts(70),
     last_update |-> t, perfect_count |-> 0, last_perfect |-> FALSE]

\* _decay that stamps last_update even when the grace test returns early
decayAlwaysStamps(b, t) ==
    LET elapsed_sec == t - b.last_update IN
    IF elapsed_sec <= decay_wait THEN [b EXCEPT !.last_update = t]
    ELSE [b EXCEPT
            !.hunger = clamp(@ + (hunger_rate * elapsed_sec) \div 10),
            !.happiness = clamp(@ - (happy_decay * elapsed_sec) \div 10),
            !.cleanliness = clamp(@ - (clean_decay * elapsed_sec) \div 10),
            !.energy = clamp(@ + (energy_recover * elapsed_sec) \div 10),
            !.last_update = t]

\* _decay with the sign of the happiness term flipped
decayHappyUp(b, t) ==
    LET elapsed_sec == t - b.last_update IN
    IF elapsed_sec <= decay_wait THEN b
    ELSE [b EXCEPT
            !.hunger = clamp(@ + (hunger_rate * elapsed_sec) \div 10),
            !.happiness = clamp(@ + (happy_decay * elapsed_sec) \div 10),
            !.cleanliness = clamp(@ - (clean_decay * elapsed_sec) \div 10),
            !.energy = clamp(@ + (energy_recover * elapsed_sec) \div 10),
            !.last_update = t]

\* _decay applying each rate per second instead of per 10 seconds
decayPerSecond(b, t) ==
    LET elapsed_sec == t - b.last_update IN
    IF elapsed_sec <= decay_wait THEN b
    ELSE [b EXCEPT
            !.hunger = clamp(@ + hunger_rate * elapsed_sec),
            !.happiness = clamp(@ - happy_decay * elapsed_sec),
            !.cleanliness = clamp(@ - clean_decay * elapsed_sec),
            !.energy = clamp(@ + energy_recover * elapsed_sec),
            !.last_update = t]

\* _decay with the grace test written < instead of <=
decayStrictGrace(b, t) ==
    LET elapsed_sec == t - b.last_update IN
    IF elapsed_sec < decay_wait THEN b
    ELSE [b EXCEPT
            !.hunger = clamp(@ + (hunger_rate * elapsed_sec) \div 10),
            !.happiness = clamp(@ - (happy_decay * elapsed_sec) \div 10),
            !.cleanliness = clamp(@ - (clean_decay * elapsed_sec) \div 10),
            !.energy = clamp(@ + (energy_recover * elapsed_sec) \div 10),
            !.last_update = t]

decay(b, t) ==
    LET elapsed_sec == t - b.last_update IN
    IF elapsed_sec <= decay_wait THEN b
    ELSE [b EXCEPT
            !.hunger = clamp(@ + (hunger_rate * elapsed_sec) \div 10),
            !.happiness = clamp(@ - (happy_decay * elapsed_sec) \div 10),
            !.cleanliness = clamp(@ - (clean_decay * elapsed_sec) \div 10),
            !.energy = clamp(@ + (energy_recover * elapsed_sec) \div 10),
            !.last_update = t]

\* round(health, 1): health in thousandths of a point, result in tenths,
\* ties to even.
round1(h1000) ==
    LET q == h1000 \div 100
        r == h1000 % 100
    IN IF r > 50 \/ (r = 50 /\ q % 2 = 1) THEN q + 1 ELSE q

perfectOf(b) ==
    /\ b.hunger <= 10           \* 0.1
    /\ b.happiness >= 9990      \* 99.9
    /\ b.cleanliness >= 9990
    /\ b.energy >= 9990

Snapshot(nb, health) ==
    [type |-> "snapshot",
     hunger |-> nb.hunger, happiness |-> nb.happiness,
     cleanliness |-> nb.cleanliness, energy |-> nb.energy,
     overallHealth |-> round1(health),
     easterBunny |-> (nb.perfect_count = 2)]

\* health computed from hunger itself instead of clamp(100 - hunger)
healthOfNoInvert(d) ==
    d.hunger * 4 + d.happiness * 3 + d.cleanliness * 2 + d.energy * 1

healthOf(d) ==
    clamp(Pts(100) - d.hunger) * 4 + d.happiness * 3
    + d.cleanliness * 2 + d.energy * 1

\* status() counting every perfect observation (level-triggered)
statusLevel(b, t) ==
    LET d == decay(b, t)
        perfect == perfectOf(d)
        count == IF perfect THEN d.perfect_count + 1 ELSE d.perfect_count
        nb == [d EXCEPT !.perfect_count = count, !.last_perfect = perfect]
    IN [bunny |-> nb, body |-> Snapshot(nb, healthOf(d))]

\* status() with easter_bunny = perfect_count >= 1
statusEarlyEaster(b, t) ==
    LET d == decay(b, t)
        perfect == perfectOf(d)
        count == IF perfect /\ ~d.last_perfect
                 THEN d.perfect_count + 1 ELSE d.perfect_count
        nb == [d EXCEPT !.perfect_count = count, !.last_perfect = perfect]
    IN [bunny |-> nb,
        body |-> [Snapshot(nb, healthOf(d)) EXCEPT
                    !.easterBunny = (nb.perfect_count >= 1)]]

\* status() that sets last_perfect on entering perfect and never clears it
statusStaleFlag(b, t) ==
    LET d == decay(b, t)
        health == healthOf(d)
        perfect == perfectOf(d)
        count == IF perfect /\ ~d.last_perfect
                 THEN d.perfect_count + 1 ELSE d.perfect_count
        nb == [d EXCEPT !.perfect_count = count,
                        !.last_perfect = perfect \/ d.last_perfect]
    IN [bunny |-> nb, body |-> Snapshot(nb, health)]

\* status() with easter_bunny = perfect_count >= 2
statusStickyEaster(b, t) ==
    LET d == decay(b, t)
        perfect == perfectOf(d)
        count == IF perfect /\ ~d.last_perfect
                 THEN d.perfect_count + 1 ELSE d.perfect_count
        nb == [d EXCEPT !.perfect_count = count, !.last_perfect = perfect]
    IN [bunny |-> nb,
        body |-> [Snapshot(nb, healthOf(d)) EXCEPT
                    !.easterBunny = (nb.perfect_count >= 2)]]

\* status(): the new fields of the bunny and the returned snapshot.
status(b, t) ==
    LET d == decay(b, t)
        health == healthOf(d)
        perfect == perfectOf(d)
        count == IF perfect /\ ~d.last_perfect
                 THEN d.perfect_count + 1 ELSE d.perfect_count
        nb == [d EXCEPT !.perfect_count = count, !.last_perfect = perfect]
    IN [bunny |-> nb, body |-> Snapshot(nb, health)]

\* feed() without the cap min(2 * pellet_count, 10) on the hunger reduction
feedUncapped(b, kind, pellet_count, t1, t2) ==
    LET d == decay(b, t1)
        mess == IF pellet_count <= 5 THEN pellet_count
                ELSE 5 + 2 * (pellet_count - 5)
        e == IF kind = "carrot"
             THEN [d EXCEPT !.hunger = clamp(@ - Pts(18)),
                            !.happiness = clamp(@ + Pts(6))]
             ELSE IF kind = "pellet"
             THEN [d EXCEPT !.hunger = clamp(@ - Pts(2 * pellet_count)),
                            !.cleanliness = clamp(@ - Pts(mess))]
             ELSE d
        f == [e EXCEPT !.energy = clamp(@ + Pts(5))]
    IN status(f, t2)

\* feed() whose mess cost is pellet_count without the taper above 5
feedFlatMess(b, kind, pellet_count, t1, t2) ==
    LET d == decay(b, t1)
        mess == pellet_count
        e == IF kind = "carrot"
             THEN [d EXCEPT !.hunger = clamp(@ - Pts(18)),
                            !.happiness = clamp(@ + Pts(6))]
             ELSE IF kind = "pellet"
             THEN [d EXCEPT
                     !.hunger = clamp(@ - Pts(Min2(2 * pellet_count, 10))),
                     !.cleanliness = clamp(@ - Pts(mess))]
             ELSE d
        f == [e EXCEPT !.energy = clamp(@ + Pts(5))]
    IN status(f, t2)

\* Bunny.feed: t1 is the clock read by its own _decay, t2 the one read by
\* the _decay of the trailing status().
feed(b, kind, pellet_count, t1, t2) ==
    LET d == decay(b, t1)
        mess == IF pellet_count <= 5 THEN pellet_count
                ELSE 5 + 2 * (pellet_count - 5)
        e == IF kind = "carrot"
             THEN [d EXCEPT !.hunger = clamp(@ - Pts(18)),
                            !.happiness = clamp(@ + Pts(6))]
             ELSE IF kind = "pellet"
             THEN [d EXCEPT
                     !.hunger = clamp(@ - Pts(Min2(2 * pellet_count, 10))),
                     !.cleanliness = clamp(@ - Pts(mess))]
             ELSE d
        f == [e EXCEPT !.energy = clamp(@ + Pts(5))]
    IN status(f, t2)

\* play() whose toy raises energy by 8 instead of lowering it
playToyEnergyUp(b, kind, t1, t2) ==
    LET d == decay(b, t1)
        e == IF kind = "pat"
             THEN [d EXCEPT !.happiness = clamp(@ + Pts(10)),
                            !.energy = clamp(@ + Pts(3))]
             ELSE IF kind = "toy"
             THEN [d EXCEPT !.happiness = clamp(@ + Pts(16)),
                            !.energy = clamp(@ + Pts(8)),
                            !.cleanliness = clamp(@ - Pts(2))]
             ELSE d
    IN status(e, t2)

play(b, kind, t1, t2) ==
    LET d == decay(b, t1)
        e == IF kind = "pat"
             THEN [d EXCEPT !.happiness = clamp(@ + Pts(10)),
                            !.energy = clamp(@ + Pts(3))]
             ELSE IF kind = "toy"
             THEN [d EXCEPT !.happiness = clamp(@ + Pts(16)),
                            !.energy = clamp(@ - Pts(8)),
                            !.cleanliness = clamp(@ - Pts(2))]
             ELSE d
    IN status(e, t2)

clean(b, t1, t2) ==
    LET d == decay(b, t1)
        e == [d EXCEPT !.cleanliness = clamp(@ + Pts(25)),
                       !.happiness = clamp(@ + Pts(4))]
    IN status(e, t2)

\* reset() that forgets to clear perfect_count and last_perfect
resetKeepsCount(b, t1, t2) ==
    status([BunnyInit(t1) EXCEPT !.perfect_count = b.perfect_count,
                                 !.last_perfect = b.last_perfect], t2)

\* Bunny.reset: __init__ reads the clock (t1), then status() reads it (t2).
reset(b, t1, t2) == status(BunnyInit(t1), t2)

\* --------------------------------------------------------------- transport
\* An optional field of the request body is a set of at most one value.
ActionKinds == {"carrot", "pellet", "pat", "toy"}
ReqKinds == {{}} \cup {{k} : k \in ActionKinds \cup {"banana"}}
ReqCounts == {{}} \cup {{n} : n \in PelletCounts}

\* pydantic validation of the body against Action: kind must be one of the
\* Literal values or None.
ActionValid(kind) == kind = {} \/ kind \subseteq ActionKinds

ValidationError == [type |-> "validation_error"]
FeedError == [type |-> "error",
              error |-> "Invalid feed kind. Use 'carrot' or 'pellet'."]
PlayError == [type |-> "error",
              error |-> "Invalid play kind. Use 'pat' or 'toy'."]
NoBody == [type |-> "none"]

TheKind(kind) == CHOOSE k \in kind : TRUE
TheCount(cnt) == CHOOSE n \in cnt : TRUE

\* the endpoint's pellet_count with the default 0 instead of 1
PelletCountDefaultZero(kind, cnt) ==
    IF kind = {"pellet"} /\ cnt # {} THEN TheCount(cnt) ELSE 0

\* feed (endpoint): the pellet_count it passes to bunny.feed.
PelletCountOf(kind, cnt) ==
    IF kind = {"pellet"} /\ cnt # {} THEN TheCount(cnt) ELSE 1

\* feed (endpoint) with a valid kind: what bunny.feed returns and leaves.
FeedResult(b, kind, cnt, t1, t2) ==
    feed(b, TheKind(kind), PelletCountOf(kind, cnt), t1, t2)

\* The requests tried: every pellet_count with pellet, a pellet_count that
\* must be ignored with carrot, and kinds the endpoint must refuse.
FeedRequests ==
    ({{"pellet"}} \X ReqCounts) \cup ({{"carrot"}} \X {{}, {100}})
    \cup ({{}, {"pat"}, {"toy"}, {"banana"}} \X {{}})
PlayRequests == {{"pat"}, {"toy"}, {}, {"carrot"}, {"banana"}}

\* The worker threads of the transport, and a thread outside any handler.
Threads == {1, 2}
IdleThread ==
    [job |-> "none", pc |-> "idle", idx |-> 0, val |-> 0, health |-> 0,
     sawFalse |-> FALSE, after |-> FALSE, res |-> NoBody]
NoThreads == [t \in Threads |-> IdleThread]

\* What every request records.
Served(name, kind, cnt) ==
    /\ op' = [name |-> name, kind |-> kind, pellet_count |-> cnt]
    /\ opTime' = now
    /\ pre' = bunny
    /\ UNCHANGED threads

\* The observer sees only returned snapshots.
Observe(body, isReset) ==
    IF body.type # "snapshot" THEN UNCHANGED <<entries, obsPerfect>>
    ELSE LET p == perfectOf(body)
             base == IF isReset THEN 0 ELSE entries
             was == IF isReset THEN FALSE ELSE obsPerfect
         IN /\ obsPerfect' = p
            /\ entries' = IF p /\ ~was THEN base + 1 ELSE base

Rejected(body) ==
    /\ ret' = body
    /\ UNCHANGED <<bunny, now, nops>>
    /\ Observe(body, FALSE)

Answered(r, t2, isReset) ==
    /\ nops < MaxOps
    /\ nops' = nops + 1
    /\ bunny' = r.bunny
    /\ ret' = r.body
    /\ now' = t2
    /\ Observe(r.body, isReset)

GetStatus ==
    /\ Served("status", {}, {})
    /\ Answered(status(bunny, now), now, FALSE)

FeedReq(kind, cnt, sk) ==
    /\ Served("feed", kind, cnt)
    /\ now + sk <= MaxTime
    /\ IF ~ActionValid(kind) THEN sk = 0 /\ Rejected(ValidationError)
       ELSE IF kind \notin {{"carrot"}, {"pellet"}}
       THEN sk = 0 /\ Rejected(FeedError)
       ELSE Answered(FeedResult(bunny, kind, cnt, now, now + sk), now + sk, FALSE)

PlayReq(kind, sk) ==
    /\ Served("play", kind, {})
    /\ now + sk <= MaxTime
    /\ IF ~ActionValid(kind) THEN sk = 0 /\ Rejected(ValidationError)
       ELSE IF kind \notin {{"pat"}, {"toy"}}
       THEN sk = 0 /\ Rejected(PlayError)
       ELSE Answered(play(bunny, TheKind(kind), now, now + sk), now + sk, FALSE)

CleanReq(sk) ==
    /\ Served("clean", {}, {})
    /\ now + sk <= MaxTime
    /\ Answered(clean(bunny, now, now + sk), now + sk, FALSE)

ResetReq(sk) ==
    /\ Served("reset", {}, {})
    /\ now + sk <= MaxTime
    /\ Answered(reset(bunny, now, now + sk), now + sk, TRUE)

\* Time passes between requests.
Tick(d) ==
    /\ now + d <= MaxTime
    /\ now' = now + d
    /\ UNCHANGED <<bunny, ret, op, opTime, pre, nops, entries, obsPerfect,
                   threads>>

\* The process just started: bunny = Bunny() at time 0, no request yet.
InitFresh ==
    /\ now = 0
    /\ bunny = BunnyInit(0)
    /\ ret = NoBody
    /\ op = [name |-> "none", kind |-> {}, pellet_count |-> {}]
    /\ opTime = 0
    /\ pre = BunnyInit(0)
    /\ nops = 0
    /\ entries = 0
    /\ obsPerfect = FALSE
    /\ threads = NoThreads

\* The state the fresh process is in after six feed(carrot) and one clean()
\* served within its first second: the pet has just become perfect for the
\* first time.  Starting here too brings a second and a third entry into the
\* perfect condition within MaxOps operations.
InitPerfectOnce ==
    LET six == [BunnyInit(0) EXCEPT !.hunger = 0, !.happiness = Pts(100),
                                    !.energy = Pts(100)]
        r == clean(six, 0, 0)
    IN /\ now = 0
       /\ bunny = r.bunny
       /\ ret = r.body
       /\ op = [name |-> "clean", kind |-> {}, pellet_count |-> {}]
       /\ opTime = 0
       /\ pre = six
       /\ nops = 0
       /\ entries = 1
       /\ obsPerfect = TRUE
       /\ threads = NoThreads

Init == InitFresh \/ InitPerfectOnce

Next ==
    \/ GetStatus
    \/ \E rq \in FeedRequests, sk \in Skews : FeedReq(rq[1], rq[2], sk)
    \/ \E kind \in PlayRequests, sk \in Skews : PlayReq(kind, sk)
    \/ \E sk \in Skews : CleanReq(sk)
    \/ \E sk \in Skews : ResetReq(sk)
    \/ \E d \in Delays : Tick(d)

Spec == Init /\ [][Next]_vars

\* The wall clock is not monotonic: it may be set back between requests.
TickBack(d) ==
    /\ now - d >= 0
    /\ now' = now - d
    /\ UNCHANGED <<bunny, ret, op, opTime, pre, nops, entries, obsPerfect,
                   threads>>

NextAnyClock ==
    \/ GetStatus
    \/ \E sk \in Skews : FeedReq({"carrot"}, {}, sk)
    \/ \E sk \in Skews : PlayReq({"toy"}, sk)
    \/ \E sk \in Skews : CleanReq(sk)
    \/ \E sk \in Skews : ResetReq(sk)
    \/ \E d \in Delays : Tick(d)
    \/ \E d \in Delays : TickBack(d)

\* The application, one request of each endpoint, under a clock that may
\* also step back.
SpecAnyClock == Init /\ [][NextAnyClock]_vars

\* ------------------------------------------------------------ observations
Stats(r) == <<r.hunger, r.happiness, r.cleanliness, r.energy>>
InRange(r) == \A i \in 1..4 : Stats(r)[i] >= 0 /\ Stats(r)[i] <= 10000
IsSnapshot == ret.type = "snapshot"
FeedPellet == op.name = "feed" /\ op.kind = {"pellet"}

\* C1 (clamping): after any sequence of status, feed, play, clean and reset,
\* with any pellet_count and any time between them, hunger, happiness,
\* cleanliness and energy are within [0,100], in the engine and in every
\* returned snapshot.
StatsClamped ==
    /\ InRange(bunny)
    /\ IsSnapshot => InRange(ret)

\* C1 witness: feed(pellet, 100) asked for more mess than the cleanliness
\* left, and cleanliness stopped at 0.
StatsClampedWitness ==
    /\ FeedPellet /\ op.pellet_count = {100}
    /\ pre.cleanliness - Pts(195) < 0
    /\ IsSnapshot /\ ret.cleanliness = 0

\* A step that runs an engine operation, and one that is a status() call.
EngineStep == nops' = nops + 1
StatusStep == EngineStep /\ op'.name = "status"

\* C2 as claimed (decay debounce): two status() calls with nothing but time
\* between them, the second less than decay_wait after the first, return
\* the same four stats, whatever the time from last_update to the first was.
DebounceByCallTime ==
    [][(op.name = "status" /\ StatusStep /\ now - opTime < decay_wait)
        => Stats(ret') = Stats(ret)]_vars

\* C2 amended: two status() calls with nothing but time between them return
\* the same four stats when the second is made at most decay_wait after
\* last_update as the first left it (the first moves last_update to its own
\* time only if it applied decay).
DebounceByLastUpdate ==
    [][(op.name = "status" /\ StatusStep /\ now - bunny.last_update <= decay_wait)
        => Stats(ret') = Stats(ret)]_vars

\* C2 witness: the second of two status() calls on the fresh engine.  Two
\* operations have run, the first left exactly the defaults decayed by 11 s
\* with last_update = 11 (only a status() at 11 s does that), and the second,
\* a status() less than 10 s later, returned the same stats.
DebounceWitness ==
    /\ op.name = "status" /\ nops = 2
    /\ Stats(pre) = <<4132, 6956, 7967, 7033>> /\ pre.last_update = 11
    /\ opTime - pre.last_update < decay_wait
    /\ IsSnapshot /\ Stats(ret) = Stats(pre)

\* C3 (edge-triggered counter): perfect_count is left alone by steps that run
\* no engine operation; reset() leaves it at 0; every other operation adds 1
\* exactly when the stats it leaves are perfect and last_perfect was false,
\* and adds nothing otherwise, so it never decreases; and an operation that
\* observes perfect right after a perfect observation adds nothing.
PerfectCountEdge ==
    [][IF ~EngineStep THEN bunny'.perfect_count = bunny.perfect_count
       ELSE IF op'.name = "reset" THEN bunny'.perfect_count = 0
       ELSE /\ bunny'.perfect_count =
                 bunny.perfect_count
                 + (IF perfectOf(bunny') /\ ~bunny.last_perfect THEN 1 ELSE 0)
            /\ bunny'.perfect_count >= bunny.perfect_count
            /\ (obsPerfect /\ perfectOf(ret'))
                 => bunny'.perfect_count = bunny.perfect_count]_vars

\* C3 witness: an operation found the pet perfect again after a non-perfect
\* observation and took perfect_count from 1 to 2.
PerfectCountEdgeWitness ==
    /\ nops > 0 /\ op.name # "reset"
    /\ pre.perfect_count = 1 /\ ~pre.last_perfect
    /\ perfectOf(bunny) /\ bunny.perfect_count = 2

\* C4 (easterBunny needs two entries): no snapshot has easterBunny = true
\* before the observer has seen two new entries into the perfect condition
\* since the start or the last reset (so not during one sustained perfect
\* period), and the snapshot of the operation that makes the second entry has
\* easterBunny = true.
EasterAfterSecondEntry ==
    /\ []((IsSnapshot /\ ret.easterBunny) => entries >= 2)
    /\ [][(entries = 1 /\ entries' = 2) => ret'.easterBunny]_vars

\* C4 witness: the second entry has just been made and its snapshot says
\* easterBunny.
EasterWitness ==
    /\ entries = 2 /\ obsPerfect /\ ~pre.last_perfect
    /\ IsSnapshot /\ ret.easterBunny /\ perfectOf(ret)

\* C5 (reset): reset() returns exactly the default stats with easterBunny
\* false and leaves perfect_count = 0 and last_perfect = false.
ResetRestoresDefaults ==
    op.name = "reset" =>
        /\ IsSnapshot
        /\ Stats(ret) = <<4000, 7000, 8000, 7000>>
        /\ ret.easterBunny = FALSE
        /\ bunny.perfect_count = 0
        /\ bunny.last_perfect = FALSE

\* C5 witness: reset() was called on a perfect pet with perfect_count = 2,
\* more than the grace period after last_update.
ResetWitness ==
    /\ op.name = "reset"
    /\ pre.perfect_count = 2 /\ pre.last_perfect
    /\ opTime - pre.last_update > decay_wait
    /\ Stats(ret) = <<4000, 7000, 8000, 7000>>

\* C6 (invalid kind): a feed request whose kind is missing or not carrot or
\* pellet, and a play request whose kind is missing or not pat or toy
\* (an out-of-enum value such as banana included), is answered with the
\* endpoint's fixed error body and leaves every field of the engine as it was.
InvalidKindFixedError ==
    /\ (op.name = "feed" /\ op.kind \notin {{"carrot"}, {"pellet"}})
         => (ret = FeedError /\ bunny = pre)
    /\ (op.name = "play" /\ op.kind \notin {{"pat"}, {"toy"}})
         => (ret = PlayError /\ bunny = pre)

Bounded(v) == IF v < 0 THEN 0 ELSE IF v > 10000 THEN 10000 ELSE v
Moved(b, dh, dp, dc, de) ==
    <<Bounded(b.hunger + Pts(dh)), Bounded(b.happiness + Pts(dp)),
      Bounded(b.cleanliness + Pts(dc)), Bounded(b.energy + Pts(de))>>

Up(a, b) == IF a = 10000 THEN b = 10000 ELSE b > a
Down(a, b) == IF a = 0 THEN b = 0 ELSE b < a
DecayDirection ==
    /\ Up(pre.hunger, ret.hunger) /\ Down(pre.happiness, ret.happiness)
    /\ Down(pre.cleanliness, ret.cleanliness) /\ Up(pre.energy, ret.energy)

\* C9 as claimed (decay direction): every status() call made when the time
\* since last_update is greater than or equal to decay_wait returns hunger
\* and energy strictly greater, happiness and cleanliness strictly smaller
\* than before, except for a stat already at its bound.
DecayFromGrace ==
    (op.name = "status" /\ opTime - pre.last_update >= decay_wait)
        => DecayDirection

\* C9 amended: the same for every status() call made when the time since
\* last_update is strictly greater than decay_wait.
DecayPastGrace ==
    (op.name = "status" /\ opTime - pre.last_update > decay_wait)
        => DecayDirection

\* C9 witness: status() more than 10 s after last_update raised hunger and
\* left energy, already 100, at 100.
DecayPastGraceWitness ==
    /\ op.name = "status" /\ opTime - pre.last_update > decay_wait
    /\ ret.hunger > pre.hunger /\ ret.happiness < pre.happiness
    /\ pre.energy = 10000 /\ ret.energy = 10000

\* The clock reads the last request may have made.
ClockReads == {opTime + sk : sk \in Skews}
AllAtBounds(b) == Stats(b) = <<10000, 0, 0, 10000>>

\* C10 as claimed (last_update): last_update never decreases and changes only
\* in a decay step that changes at least one stat: never in reset(), never
\* in a decay that finds all four stats at their bounds.
LastUpdateOnlyByChangingDecay ==
    /\ bunny.last_update >= pre.last_update
    /\ bunny.last_update # pre.last_update
         => /\ op.name \in {"status", "feed", "play", "clean"}
            /\ \E t \in ClockReads : /\ t - pre.last_update > decay_wait
                                     /\ bunny.last_update = t
            /\ ~AllAtBounds(pre)

\* C10 amended: last_update never decreases, and changes only to the value
\* of a clock read that found more than decay_wait elapsed (the decay then
\* runs, whether or not clamping lets it change a stat) or in reset(), which
\* sets it to the clock.
LastUpdateByDecayOrReset ==
    /\ bunny.last_update >= pre.last_update
    /\ bunny.last_update # pre.last_update
         => \/ op.name = "reset" /\ bunny.last_update = opTime
            \/ /\ op.name \in {"status", "feed", "play", "clean"}
               /\ \E t \in ClockReads : /\ t - pre.last_update > decay_wait
                                        /\ bunny.last_update = t

\* C10 witness: a decay that ran after more than 10 s moved last_update to
\* the clock.
LastUpdateWitness ==
    /\ op.name \in {"status", "feed", "play", "clean"}
    /\ opTime - pre.last_update > decay_wait
    /\ bunny.last_update = opTime /\ bunny.last_update > pre.last_update

\* The claimed stats after a decay over e seconds: 0.12, 0.04, 0.03 and 0.03
\* points per second, each kept within [0,100].
DecayedStats(b, e) ==
    <<Bounded(b.hunger + 12 * e), Bounded(b.happiness - 4 * e),
      Bounded(b.cleanliness - 3 * e), Bounded(b.energy + 3 * e)>>

InitPerfectTwice ==
    LET six == [BunnyInit(0) EXCEPT !.hunger = 0, !.happiness = Pts(100),
                                    !.energy = Pts(100)]
        once == clean(six, 0, 0).bunny
        fed == feed(once, "pellet", 1, 0, 0).bunny
        r == clean(fed, 0, 0)
    IN /\ now = 0
       /\ bunny = r.bunny
       /\ ret = r.body
       /\ op = [name |-> "clean", kind |-> {}, pellet_count |-> {}]
       /\ opTime = 0
       /\ pre = fed
       /\ nops = 0
       /\ entries = 2
       /\ obsPerfect = TRUE
       /\ threads = NoThreads

\* The state of a process whose first request, a status() 20 s after the
\* start, was followed at once by four feed(carrot) and three play(pat); the
\* clock is counted from that status(), so last_update = 0.
InitNearFull ==
    LET carrot(b) == feed(b, "carrot", 1, 0, 0).bunny
        pat(b) == play(b, "pat", 0, 0).bunny
        first == status(BunnyInit(-20), 0).bunny
        fed == carrot(carrot(carrot(carrot(first))))
        r == play(pat(pat(fed)), "pat", 0, 0)
    IN /\ now = 0
       /\ bunny = r.bunny
       /\ ret = r.body
       /\ op = [name |-> "play", kind |-> {"pat"}, pellet_count |-> {}]
       /\ opTime = 0
       /\ pre = pat(pat(fed))
       /\ nops = 0
       /\ entries = 0
       /\ obsPerfect = FALSE
       /\ threads = NoThreads

InitWarm == InitPerfectTwice \/ InitNearFull

SpecWarm == InitWarm /\ [][Next]_vars

\* ------------------------------------------------- handlers in two threads
\* The endpoints are plain functions, which the transport runs in worker
\* threads; nothing guards bunny.  Each handler is run statement by statement,
\* a read of a field and the write that follows it being separate steps.
\* Both requests arrive within the grace period (no time passes), so each
\* _decay takes its early return.

\* The statements of a handler after its own _decay and before status():
\* the stat each one reads and writes, and its delta.
\* feed('carrot') with the hunger delta of a pellet
ProgramCarrotAsPellet(job) ==
    IF job = "feed"
    THEN <<[stat |-> "hunger", delta |-> -2],
           [stat |-> "happiness", delta |-> 6],
           [stat |-> "energy", delta |-> 5]>>
    ELSE IF job = "clean"
    THEN <<[stat |-> "cleanliness", delta |-> 25],
           [stat |-> "happiness", delta |-> 4]>>
    ELSE <<>>

Program(job) ==
    IF job = "feed"
    THEN <<[stat |-> "hunger", delta |-> -18],
           [stat |-> "happiness", delta |-> 6],
           [stat |-> "energy", delta |-> 5]>>
    ELSE IF job = "clean"
    THEN <<[stat |-> "cleanliness", delta |-> 25],
           [stat |-> "happiness", delta |-> 4]>>
    ELSE <<>>

ConcJobs == {"feed", "clean", "status"}

Outside == <<now, ret, op, opTime, pre, nops, entries, obsPerfect>>

At(t, label) == threads[t].pc = label
Goto(t, rec) == threads' = [threads EXCEPT ![t] = rec]

\* A request reaches a free worker thread: feed with kind carrot, clean, or
\* status.
Arrive(t, j) ==
    /\ At(t, "idle")
    /\ Goto(t, [threads[t] EXCEPT
                  !.job = j,
                  !.pc = IF Program(j) = <<>> THEN "st_decay" ELSE "decay",
                  !.after = \E u \in Threads \ {t} : threads[u].pc = "done"])
    /\ UNCHANGED <<bunny, Outside>>

\* self._decay() of feed and clean
OwnDecay(t) ==
    /\ At(t, "decay")
    /\ bunny' = decay(bunny, now)
    /\ Goto(t, [threads[t] EXCEPT !.pc = "read", !.idx = 1])
    /\ UNCHANGED Outside

\* the right-hand side's self.state[stat]
ReadStat(t) ==
    /\ At(t, "read")
    /\ LET st == Program(threads[t].job)[threads[t].idx] IN
       Goto(t, [threads[t] EXCEPT !.pc = "write", !.val = bunny[st.stat]])
    /\ UNCHANGED <<bunny, Outside>>

\* self.state[stat] = clamp(value read + delta)
WriteStat(t) ==
    /\ At(t, "write")
    /\ LET prog == Program(threads[t].job)
           st == prog[threads[t].idx]
       IN /\ bunny' = [bunny EXCEPT
                         ![st.stat] = clamp(threads[t].val + Pts(st.delta))]
          /\ IF threads[t].idx < Len(prog)
             THEN Goto(t, [threads[t] EXCEPT !.pc = "read", !.idx = @ + 1])
             ELSE Goto(t, [threads[t] EXCEPT !.pc = "st_decay"])
    /\ UNCHANGED Outside

\* self._decay() of status()
StatusDecay(t) ==
    /\ At(t, "st_decay")
    /\ bunny' = decay(bunny, now)
    /\ Goto(t, [threads[t] EXCEPT !.pc = "st_eval"])
    /\ UNCHANGED Outside

\* health = ...; perfect = ...; if perfect:
StatusEval(t) ==
    /\ At(t, "st_eval")
    /\ Goto(t, [threads[t] EXCEPT
                  !.health = healthOf(bunny),
                  !.pc = IF perfectOf(bunny) THEN "st_test" ELSE "st_clear"])
    /\ UNCHANGED <<bunny, Outside>>

\* if not self.last_perfect:
StatusTest(t) ==
    /\ At(t, "st_test")
    /\ IF ~bunny.last_perfect
       THEN Goto(t, [threads[t] EXCEPT !.pc = "st_rdcount", !.sawFalse = TRUE])
       ELSE Goto(t, [threads[t] EXCEPT !.pc = "st_set"])
    /\ UNCHANGED <<bunny, Outside>>

\* self.perfect_count += 1: the read
StatusReadCount(t) ==
    /\ At(t, "st_rdcount")
    /\ Goto(t, [threads[t] EXCEPT !.pc = "st_wrcount",
                                  !.val = bunny.perfect_count])
    /\ UNCHANGED <<bunny, Outside>>

\* the counter written as the value read + 2
StatusWriteCountTwice(t) ==
    /\ At(t, "st_wrcount")
    /\ bunny' = [bunny EXCEPT !.perfect_count = threads[t].val + 2]
    /\ Goto(t, [threads[t] EXCEPT !.pc = "st_set"])
    /\ UNCHANGED Outside

\* self.perfect_count += 1: the write
StatusWriteCount(t) ==
    /\ At(t, "st_wrcount")
    /\ bunny' = [bunny EXCEPT !.perfect_count = threads[t].val + 1]
    /\ Goto(t, [threads[t] EXCEPT !.pc = "st_set"])
    /\ UNCHANGED Outside

\* self.last_perfect = True
StatusSet(t) ==
    /\ At(t, "st_set")
    /\ bunny' = [bunny EXCEPT !.last_perfect = TRUE]
    /\ Goto(t, [threads[t] EXCEPT !.pc = "st_ret"])
    /\ UNCHANGED Outside

\* else: self.last_perfect = False
StatusClear(t) ==
    /\ At(t, "st_clear")
    /\ bunny' = [bunny EXCEPT !.last_perfect = FALSE]
    /\ Goto(t, [threads[t] EXCEPT !.pc = "st_ret"])
    /\ UNCHANGED Outside

\* easter_bunny = self.perfect_count == 2; return {...}
StatusReturn(t) ==
    /\ At(t, "st_ret")
    /\ Goto(t, [threads[t] EXCEPT !.pc = "done",
                                  !.res = Snapshot(bunny, threads[t].health)])
    /\ UNCHANGED <<bunny, Outside>>

\* The state of the fresh process after six feed(carrot) served one after
\* another within its first second: hunger 0, happiness and energy 100,
\* cleanliness 80, never perfect yet.
InitSixCarrots ==
    LET carrot(b) == feed(b, "carrot", 1, 0, 0).bunny
        five == carrot(carrot(carrot(carrot(carrot(BunnyInit(0))))))
        r == feed(five, "carrot", 1, 0, 0)
    IN /\ now = 0
       /\ bunny = r.bunny
       /\ ret = r.body
       /\ op = [name |-> "feed", kind |-> {"carrot"}, pellet_count |-> {}]
       /\ opTime = 0
       /\ pre = five
       /\ nops = 0
       /\ entries = 0
       /\ obsPerfect = FALSE
       /\ threads = NoThreads

InitConc == InitFresh \/ InitSixCarrots

NextConc ==
    \/ \E t \in Threads, j \in ConcJobs : Arrive(t, j)
    \/ \E t \in Threads : OwnDecay(t)
    \/ \E t \in Threads : ReadStat(t)
    \/ \E t \in Threads : WriteStat(t)
    \/ \E t \in Threads : StatusDecay(t)
    \/ \E t \in Threads : StatusEval(t)
    \/ \E t \in Threads : StatusTest(t)
    \/ \E t \in Threads : StatusReadCount(t)
    \/ \E t \in Threads : StatusWriteCount(t)
    \/ \E t \in Threads : StatusSet(t)
    \/ \E t \in Threads : StatusClear(t)
    \/ \E t \in Threads : StatusReturn(t)

SpecConc == InitConc /\ [][NextConc]_vars

\* ------------------------------------------------ observations, continued
Outcome(r) == <<r.bunny, r.body>>

\* C12 (pellet_count honoured only for pellet): the count the endpoint hands
\* to bunny.feed for kind carrot is the same whatever pellet_count the request
\* carries (absent, zero, negative, large), and for kind pellet without a
\* pellet_count it is the count of pellet_count = 1; every served carrot
\* request leaves the engine state and snapshot of a carrot request without
\* pellet_count, and every served pellet request without pellet_count leaves
\* those of a pellet request with pellet_count = 1.
PelletCountOnlyForPellet ==
    /\ [](/\ \A cnt \in ReqCounts :
                 PelletCountOf({"carrot"}, cnt) = PelletCountOf({"carrot"}, {})
          /\ PelletCountOf({"pellet"}, {}) = PelletCountOf({"pellet"}, {1}))
    /\ [][(EngineStep /\ op'.name = "feed") =>
            /\ op'.kind = {"carrot"} =>
                 <<bunny', ret'>>
                   = Outcome(FeedResult(bunny, {"carrot"}, {}, now, now'))
            /\ (op'.kind = {"pellet"} /\ op'.pellet_count = {}) =>
                 <<bunny', ret'>>
                   = Outcome(FeedResult(bunny, {"pellet"}, {1}, now, now'))]_vars

\* C12 witness: feed(carrot) carrying pellet_count = 100 was served on the
\* default stats and did what a carrot does: cleanliness untouched.
PelletCountIgnoredWitness ==
    /\ op.name = "feed" /\ op.kind = {"carrot"} /\ op.pellet_count = {100}
    /\ Stats(pre) = <<4000, 7000, 8000, 7000>>
    /\ IsSnapshot /\ Stats(ret) = <<2200, 7600, 8000, 7500>>

SecondDecayNoOp ==
    (op.name \in {"feed", "play", "clean"} /\ IsSnapshot) =>
        LET first == opTime - pre.last_update IN
        /\ bunny.last_update =
             (IF first <= decay_wait THEN pre.last_update ELSE opTime)
        /\ first <= decay_wait =>
             /\ (op.name = "feed" /\ op.kind = {"carrot"})
                  => Stats(ret) = Moved(pre, -18, 6, 0, 5)
             /\ (op.name = "play" /\ op.kind = {"pat"})
                  => Stats(ret) = Moved(pre, 0, 10, 0, 3)
             /\ (op.name = "play" /\ op.kind = {"toy"})
                  => Stats(ret) = Moved(pre, 0, 16, -2, -8)
             /\ op.name = "clean"
                  => Stats(ret) = Moved(pre, 0, 4, 25, 0)

\* C16 (last_perfect tracks the stored stats): with requests served one at a
\* time, after every completed status, feed, play, clean and reset
\* last_perfect is true exactly when the stored stats are perfect (hunger
\* <= 0.1 and happiness, cleanliness, energy >= 99.9).
LastPerfectTracksStats ==
    bunny.last_perfect <=>
        (/\ bunny.hunger <= 10 /\ bunny.happiness >= 9990
         /\ bunny.cleanliness >= 9990 /\ bunny.energy >= 9990)

\* C16 witness: an operation found the pet perfect with last_perfect set,
\* left it not perfect, and cleared last_perfect.
LastPerfectWitness ==
    /\ nops > 0 /\ op.name \in {"status", "feed", "play", "clean"}
    /\ pre.last_perfect /\ Stats(pre) = <<0, 10000, 10000, 10000>>
    /\ Stats(bunny) # Stats(pre) /\ ~bunny.last_perfect

\* C18 (grace time is deferred): a status() made at most decay_wait after
\* last_update, followed with nothing but time between them by a status()
\* made more than decay_wait after that same last_update, leaves the stats
\* and last_update that a single status() at the later time leaves from the
\* state before the first: the stats decayed over the whole interval and
\* last_update at the later time.
GraceTimeDeferred ==
    [][(/\ op.name = "status" /\ opTime - pre.last_update <= decay_wait
        /\ StatusStep /\ now - pre.last_update > decay_wait) =>
        LET single == status(pre, now).bunny IN
        /\ Stats(bunny') = Stats(single)
        /\ bunny'.last_update = single.last_update
        /\ Stats(bunny') = DecayedStats(pre, now - pre.last_update)
        /\ bunny'.last_update = now]_vars

\* C18 witness: two operations ran on the fresh engine; the first left the
\* defaults with last_update = 0, and the second, a status() at 11 s, left
\* the defaults decayed by the whole 11 s with last_update = 11.
GraceTimeDeferredWitness ==
    /\ op.name = "status" /\ nops = 2 /\ opTime = 11
    /\ pre = BunnyInit(0) /\ entries = 0
    /\ Stats(bunny) = <<4132, 6956, 7967, 7033>> /\ bunny.last_update = 11

\* C17 (easterBunny is not sticky): every snapshot has easterBunny = true
\* exactly while perfect_count = 2, whether or not the pet is perfect in it;
\* the snapshot of the operation that makes the third new entry into the
\* perfect condition has easterBunny = false, and so has every snapshot after
\* it until reset() is called.
EasterNotSticky ==
    /\ [](IsSnapshot => (ret.easterBunny <=> bunny.perfect_count = 2))
    /\ []((IsSnapshot /\ entries >= 3) => ~ret.easterBunny)
    /\ [][(entries = 2 /\ entries' = 3)
            => (ret'.type = "snapshot" /\ ~ret'.easterBunny)]_vars
    /\ [][(entries >= 3 /\ op'.name # "reset") => entries' >= 3]_vars

\* C17 witness: after a snapshot with easterBunny = true the pet was seen not
\* perfect and has just become perfect for the third time; the snapshot says
\* easterBunny = false.
EasterNotStickyWitness ==
    /\ entries = 3 /\ obsPerfect
    /\ pre.perfect_count = 2 /\ ~pre.last_perfect
    /\ IsSnapshot /\ perfectOf(ret) /\ ~ret.easterBunny

\* The claimed weighted sum of a snapshot's stats, in thousandths of a point:
\* (100 - hunger) kept within [0,100] at 0.4, happiness at 0.3, cleanliness at
\* 0.2, energy at 0.1.
WeightedSum(r) ==
    4 * Bounded(10000 - r.hunger) + 3 * r.happiness
    + 2 * r.cleanliness + r.energy

\* C20 as claimed (overallHealth): in every snapshot overallHealth is within
\* [0,100], and it is 100 exactly when hunger = 0 and happiness, cleanliness
\* and energy are 100.
HealthFullOnlyAtBest ==
    IsSnapshot =>
        /\ ret.overallHealth >= 0 /\ ret.overallHealth <= 1000
        /\ ret.overallHealth = 1000
             <=> Stats(ret) = <<0, 10000, 10000, 10000>>

\* C20 amended: in every snapshot overallHealth is within [0,100] and is the
\* weighted sum rounded to one decimal place: at most 0.05 away from it.  It
\* is 100 when hunger = 0 and the other three stats are 100, and it is 100
\* only when the weighted sum is at least 99.95.
HealthRoundedSum ==
    IsSnapshot =>
        /\ ret.overallHealth >= 0 /\ ret.overallHealth <= 1000
        /\ 100 * ret.overallHealth - WeightedSum(ret) <= 50
        /\ WeightedSum(ret) - 100 * ret.overallHealth <= 50
        /\ Stats(ret) = <<0, 10000, 10000, 10000>> => ret.overallHealth = 1000
        /\ ret.overallHealth = 1000 => WeightedSum(ret) >= 99950

\* C20 witness: clean() returned hunger 0, happiness 100, cleanliness 100 and
\* energy 99.6, weighted sum 99.96, with overallHealth = 100.
HealthRoundedWitness ==
    /\ op.name = "clean" /\ nops > 0
    /\ IsSnapshot /\ Stats(ret) = <<0, 10000, 10000, 9960>>
    /\ WeightedSum(ret) = 99960 /\ ret.overallHealth = 1000

\* What two handlers of the same kind leave when run one after the other.
AllDone == \A t \in Threads : threads[t].pc = "done"
BothRan(j) == AllDone /\ \A t \in Threads : threads[t].job = j
InTurn == \E t \in Threads : threads[t].after
TwoCarrots ==
    feed(feed(BunnyInit(0), "carrot", 1, 0, 0).bunny, "carrot", 1, 0, 0).bunny

\* C15 (lost update): on the fresh engine (hunger 40, within the grace
\* period) two feed(carrot) handlers run in two threads with no mutex,
\* interleaved at single reads and writes, leave hunger 4, as either serial
\* order does, or 22, the second decrement lost, and nothing else; run one
\* after the other they leave the serial state.
LostUpdate ==
    (op.name = "none" /\ BothRan("feed")) =>
        /\ TwoCarrots.hunger = 400
        /\ bunny.hunger \in {400, 2200}
        /\ InTurn => Stats(bunny) = Stats(TwoCarrots)

\* C15 witness: both feed(carrot) handlers have returned on the fresh engine
\* and hunger is 22; the stats are not those of the serial execution.
LostUpdateWitness ==
    /\ op.name = "none" /\ BothRan("feed")
    /\ bunny.hunger = 2200
    /\ Stats(bunny) # Stats(TwoCarrots)

\* C19 (doubled increment): with two status computations running in two
\* threads with no mutex, the stored stats enter the perfect condition at
\* most once, perfect_count rises by at most 1 when the handlers run one
\* after the other, and it exceeds 1 only when both computations have read
\* last_perfect = false.
DoubleCount ==
    /\ [][perfectOf(bunny) => perfectOf(bunny')]_vars
    /\ []((AllDone /\ InTurn) => bunny.perfect_count <= 1)
    /\ [](bunny.perfect_count >= 2 =>
            /\ bunny.perfect_count = 2
            /\ \A t \in Threads : threads[t].sawFalse)

\* C19 witness: the pet had never been perfect; clean() in one thread made it
\* perfect, a second handler ran beside it, both status computations read
\* last_perfect = false, perfect_count is 2 after this single entry and a
\* returned snapshot says easterBunny.
DoubleCountWitness ==
    /\ op.name = "feed" /\ pre.perfect_count = 0 /\ AllDone
    /\ \A t \in Threads : threads[t].sawFalse
    /\ bunny.perfect_count = 2
    /\ \E t \in Threads : threads[t].res.easterBunny

====
